---- MODULE Spec2Model ----
(***************************************************************************)
(* Model of danizd/peliculas: scraper.py (history file, title             *)
(* normalisation, FilmAffinity lookup with retries, pipeline main) and     *)
(* the persistence of movie_notifier.py.                                   *)
(*                                                                         *)
(* Titles are sequences of one-character strings.  Ratings are integers   *)
(* in tenths of a point (7.0 is 70).  None is the Python None.  Days are     *)
(* counted from the day the model starts.                                  *)
(***************************************************************************)
EXTENDS Integers, Sequences, FiniteSets, TLC

VARIABLES
    \* ---- the environment of scraper.main
    disk,               \* HISTORIAL_FILE on disk: [estado, peliculas]
    listado,            \* the entries the MejorTorrent page lists at present
    hoy,                \* the calendar day datetime.now() reports
    \* ---- the scraper.main process
    pc,                 \* position of the process ("idle": not running)
    telegram,           \* TRUE iff get_telegram_config() returned a token and a chat id
    historial,          \* historial["peliculas"] of the running process
    titles,             \* what get_mejortorrent_titles() returned to this run
    titulos_a_procesar, \* the capped list of new titles of this run
    i,                  \* 1-based index of the for loop over titulos_a_procesar
    movie_info,         \* what search_filmaffinity returned for the current title
    good_movies,        \* titles of this run with rating >= MIN_RATING
    saltadas,           \* candidates of this run skipped as already analysed
    j,                  \* 1-based index of the notification loop over good_movies
    envio,              \* outcome of the last send_telegram_message of this run
    \* ---- history of the runs (observation only, never read by the program)
    inicio,             \* state of the document when the current run loaded it
    buscadas,           \* dedup keys whose lookup began in the current run, in order
    notificadas,        \* dedup keys send_telegram_message was called for
    guardadas,          \* dedup keys some successful save has persisted
    previa,             \* how the previous run ended, while the listing is unchanged
    \* ---- one call of search_filmaffinity
    fase,               \* position inside search_filmaffinity
    retries,            \* the attempt budget of the call
    attempt,            \* the loop variable of range(retries)
    traza,              \* sleeps and requests of the call, in order
    soup,               \* the parsed 200 response, while the call resolves it
    leida,              \* what extract_rating found on the page the result was
                        \* read from (observation only; None: no such page)
    resultado,          \* the value returned
    \* ---- normalizar_titulo applied to a title, and again to its result
    raw_title,          \* the title given
    dedup_key,          \* normalizar_titulo(raw_title)
    rekey,              \* normalizar_titulo(dedup_key)
    fnorm,              \* what has been computed so far
    \* ---- movie_notifier.main and its environment
    processed_file,     \* PROCESSED_FILE on disk: [estado, urls]
    cartelera,          \* the torrent URLs the page lists, in order
    pcn,                \* position of the process ("idle": not running)
    processed,          \* the set processed of the running process
    new_torrents,       \* what scrape_torrents() returned to this run
    nt,                 \* 1-based index of the for loop over new_torrents
    info,               \* what get_filmaffinity_info returned for the current torrent
    enviadas            \* per URL, the notifications delivered (observation only)

vars == <<disk, listado, hoy, pc, telegram, historial, titles, titulos_a_procesar, i,
          movie_info, good_movies, saltadas, j, envio, inicio, buscadas, notificadas,
          guardadas, previa, fase, retries, attempt, traza, soup, leida,
          resultado, raw_title, dedup_key, rekey, fnorm, processed_file, cartelera, pcn,
          processed, new_torrents, nt, info, enviadas>>

\* the memory of the process
proceso == <<pc, telegram, historial, titles, titulos_a_procesar, i, movie_info,
             good_movies, saltadas, j, envio, inicio, buscadas>>

searchVars == <<fase, retries, attempt, traza, soup, leida, resultado>>

normVars == <<raw_title, dedup_key, rekey, fnorm>>

notifierVars == <<processed_file, cartelera, pcn, processed, new_torrents, nt, info,
                  enviadas>>

\* what a run of main leaves alone
ajenasMain == <<searchVars, normVars, notifierVars>>

\* the Python None, as a value comparable with the result records
None == [none |-> TRUE]

\* ---- bounds of the model
MaxRetries == 3
MaxLen == 3
MaxEnvios == 2
MaxCartelera == 2
MaxDia == 1

\* ---- program constants
\* MIN_RATING = 7.0, in tenths
MIN_RATING == 70
\* MAX_PELICULAS_POR_EJECUCION is 20 in the source; the model scales it to 2 so
\* that a Lister output of three candidates exceeds it
MAX_PELICULAS_POR_EJECUCION == 2

Min(a, b) == IF a <= b THEN a ELSE b

(***************************************************************************)
(* normalizar_titulo (scraper.py 165-176)                                  *)
(***************************************************************************)
Minusculas == {"a","b","c","d","e","f","g","h","i","j","k","l","m","n","o",
               "p","q","r","s","t","u","v","w","x","y","z"}
Digitos == {"0","1","2","3","4","5","6","7","8","9"}
\* what \s matches and str.strip() strips
Blancos == {" ", "\t", "\n"}

\* str.lower() on one character
Lower(c) ==
    CASE c = "A" -> "a" [] c = "B" -> "b" [] c = "C" -> "c" [] c = "D" -> "d"
      [] c = "E" -> "e" [] c = "F" -> "f" [] c = "G" -> "g" [] c = "H" -> "h"
      [] c = "I" -> "i" [] c = "J" -> "j" [] c = "K" -> "k" [] c = "L" -> "l"
      [] c = "M" -> "m" [] c = "N" -> "n" [] c = "O" -> "o" [] c = "P" -> "p"
      [] c = "Q" -> "q" [] c = "R" -> "r" [] c = "S" -> "s" [] c = "T" -> "t"
      [] c = "U" -> "u" [] c = "V" -> "v" [] c = "W" -> "w" [] c = "X" -> "x"
      [] c = "Y" -> "y" [] c = "Z" -> "z"
      [] c = "Á" -> "á" [] c = "É" -> "é" [] c = "Í" -> "í" [] c = "Ó" -> "ó"
      [] c = "Ú" -> "ú" [] c = "Ñ" -> "ñ" [] c = "À" -> "à" [] c = "È" -> "è"
      [] c = "Ì" -> "ì" [] c = "Ò" -> "ò" [] c = "Ù" -> "ù" [] c = "Ü" -> "ü"
      [] c = "Â" -> "â" [] c = "Ä" -> "ä" [] c = "Ç" -> "ç" [] c = "Ö" -> "ö"
      [] OTHER -> c

\* a variant of the table without its acute accents
ReemplazoSinAgudas(c) ==
    CASE c = "ñ" -> "n" [] c = "à" -> "a" [] c = "è" -> "e"
      [] c = "ì" -> "i" [] c = "ò" -> "o" [] c = "ù" -> "u" [] c = "ü" -> "u"
      [] OTHER -> c

\* the table reemplazos, applied with str.replace
Reemplazo(c) ==
    CASE c = "á" -> "a" [] c = "é" -> "e" [] c = "í" -> "i" [] c = "ó" -> "o"
      [] c = "ú" -> "u" [] c = "ñ" -> "n" [] c = "à" -> "a" [] c = "è" -> "e"
      [] c = "ì" -> "i" [] c = "ò" -> "o" [] c = "ù" -> "u" [] c = "ü" -> "u"
      [] OTHER -> c

\* titulo.lower()
LowerSeq(s) == [n \in 1..Len(s) |-> Lower(s[n])]

\* the loop of titulo.replace(acento, letra)
Reemplazar(s) == [n \in 1..Len(s) |-> Reemplazo(s[n])]

\* str.strip(): drop leading and trailing whitespace
RECURSIVE LStrip(_)
LStrip(s) == IF s # <<>> /\ Head(s) \in Blancos THEN LStrip(Tail(s)) ELSE s

RECURSIVE RStrip(_)
RStrip(s) ==
    IF s # <<>> /\ s[Len(s)] \in Blancos
    THEN RStrip(SubSeq(s, 1, Len(s) - 1))
    ELSE s

Strip(s) == RStrip(LStrip(s))

\* a variant that puts a space in the place of every other character
SoloAlfanumericosConEspacio(s) ==
    [n \in 1..Len(s) |->
        IF s[n] \in Minusculas \cup Digitos \cup Blancos THEN s[n] ELSE " "]

\* re.sub(r'[^a-z0-9\s]', '', titulo): delete every other character
SoloAlfanumericos(s) ==
    SelectSeq(s, LAMBDA c : c \in Minusculas \cup Digitos \cup Blancos)

\* re.sub(r'\s+', ' ', titulo): each run of whitespace becomes one space
RECURSIVE ColapsarBlancos(_)
ColapsarBlancos(s) ==
    IF s = <<>> THEN <<>>
    ELSE IF Head(s) \in Blancos
         THEN <<" ">> \o ColapsarBlancos(LStrip(Tail(s)))
         ELSE <<Head(s)>> \o ColapsarBlancos(Tail(s))

\* a variant without the strip() of line 175
normalizar_sin_strip_final(titulo) ==
    LET t1 == Strip(LowerSeq(titulo))
        t2 == Reemplazar(t1)
        t3 == SoloAlfanumericos(t2)
    IN  ColapsarBlancos(t3)

normalizar_titulo(titulo) ==
    LET t1 == Strip(LowerSeq(titulo))
        t2 == Reemplazar(t1)
        t3 == SoloAlfanumericos(t2)
    IN  Strip(ColapsarBlancos(t3))

(***************************************************************************)
(* The Lister: get_mejortorrent_titles (scraper.py 92-132)                 *)
(***************************************************************************)
\* Entries the listing page can yield: original_title as scraped and the
\* clean_title clean_title_for_search leaves ("(2021)" and "[1080p]" are
\* removed).  Two of them differ only in letter case.
Catalogo ==
    { [original_title |-> "Dune (2021)",  clean_title |-> <<"D","u","n","e">>],
      [original_title |-> "DUNE [1080p]", clean_title |-> <<"D","U","N","E">>],
      [original_title |-> "Café (2016)",  clean_title |-> <<"C","a","f","é">>] }

\* `title not in seen`: no original title is listed twice in one output
RECURSIVE ListasDe(_)
ListasDe(S) ==
    {<<>>} \cup UNION { { <<c>> \o l : l \in ListasDe(S \ {c}) } : c \in S }

Listados == ListasDe(Catalogo)

\* the titles of the page, or [] when the request raises RequestException
get_mejortorrent_titles(falla) == IF falla THEN <<>> ELSE listado

Claves == { normalizar_titulo(c.clean_title) : c \in Catalogo }

\* a listed title made of punctuation marks only: it is longer than 3
\* characters and clean_title_for_search leaves more than 2 of them, so the
\* Lister keeps it (lines 116-119)
SoloSignos ==
    [original_title |-> "¿¿¿???", clean_title |-> <<"¿","¿","¿","?","?","?">>]

\* the listings of a page that carries it
CatalogoConSignos ==
    { [original_title |-> "Dune (2021)", clean_title |-> <<"D","u","n","e">>],
      SoloSignos }

ListadosConSignos == ListasDe(CatalogoConSignos)

(***************************************************************************)
(* The history (scraper.py 179-215)                                        *)
(***************************************************************************)
Vacio == [k \in {} |-> 0]

DiscoAusente == [estado |-> "absent", peliculas |-> Vacio]
\* an empty or partially written file: json.load raises JSONDecodeError
DiscoMalformado == [estado |-> "malformed", peliculas |-> Vacio]
DiscoCon(h) == [estado |-> "valid", peliculas |-> h]

\* cargar_historial: the parsed document, or {"peliculas": {}} when the file
\* is absent and also when reading it fails (the error is only printed)
cargar_historial(d) == IF d.estado = "valid" THEN d.peliculas ELSE Vacio

\* a variant that records only the titles found with a rating
agregar_solo_encontradas(h, titulo_limpio, nota, notificado) ==
    LET clave == normalizar_titulo(titulo_limpio)
        registro == [titulo |-> titulo_limpio, nota |-> nota,
                     fecha |-> hoy, notificado |-> notificado]
    IN  IF nota = 0
        THEN h
        ELSE [k \in DOMAIN h \cup {clave} |-> IF k = clave THEN registro ELSE h[k]]

agregar_al_historial(h, titulo_limpio, nota, notificado) ==
    LET clave == normalizar_titulo(titulo_limpio)
        registro == [titulo |-> titulo_limpio, nota |-> nota,
                     fecha |-> hoy, notificado |-> notificado]
    IN  [k \in DOMAIN h \cup {clave} |-> IF k = clave THEN registro ELSE h[k]]

ya_analizada(h, titulo_limpio) == normalizar_titulo(titulo_limpio) \in DOMAIN h

(***************************************************************************)
(* scraper.main (scraper.py 402-499)                                       *)
(***************************************************************************)
\* ratings a lookup can report, in tenths: just below and at MIN_RATING
Notas == {69, 70}

\* what search_filmaffinity returns: None, or the info of a page with a rating
ResultadosBusqueda == {None} \cup { [rating |-> r] : r \in Notas }

\* a variant that flags only the ratings above the threshold
SuperaUmbralEstricto(rating) == rating > MIN_RATING

\* line 461: notificado = rating >= MIN_RATING
SuperaUmbral(rating) == rating >= MIN_RATING

\* titulos_nuevos: the candidates not in the history, in listing order
titulos_nuevos(h, lista) ==
    SelectSeq(lista, LAMBDA t : ~ya_analizada(h, t.clean_title))

\* titulos_nuevos[:MAX_PELICULAS_POR_EJECUCION]
Limitar(lista) == SubSeq(lista, 1, Min(Len(lista), MAX_PELICULAS_POR_EJECUCION))

\* how a run that reached "Script finalizado" is remembered: "completa_ok"
\* when its new titles fitted the cap and the document holds its history
Resumen ==
    IF /\ Len(titles) - saltadas <= MAX_PELICULAS_POR_EJECUCION
       /\ disk = DiscoCon(historial)
    THEN "completa_ok"
    ELSE "completa"

\* the process is gone: its memory is lost
ProcesoParado ==
    /\ pc' = "idle"
    /\ telegram' = FALSE
    /\ historial' = Vacio
    /\ titles' = <<>>
    /\ titulos_a_procesar' = <<>>
    /\ i' = 1
    /\ movie_info' = None
    /\ good_movies' = <<>>
    /\ saltadas' = 0
    /\ j' = 1
    /\ envio' = "none"
    /\ inicio' = "none"
    /\ buscadas' = <<>>

\* position after one iteration of the for loop, or before the first
PcBucle(n, lista) == IF n <= Len(lista) THEN "buscar" ELSE "notificar"

\* lines 404-448: configuration, history, Lister, filter and cap
Iniciar(tel, falla) ==
    /\ pc = "idle"
    /\ UNCHANGED <<disk, listado, hoy, notificadas, guardadas>>
    /\ LET lista == get_mejortorrent_titles(falla)
           h == cargar_historial(disk)
           nuevos == titulos_nuevos(h, lista)
       IN  IF lista = <<>>
           THEN \* "No se encontraron titulos": return
                /\ ProcesoParado
                /\ previa' = IF falla THEN "none" ELSE "completa_ok"
           ELSE /\ telegram' = tel
                /\ historial' = h
                /\ titles' = lista
                /\ saltadas' = Len(lista) - Len(nuevos)
                /\ titulos_a_procesar' = Limitar(nuevos)
                /\ i' = 1
                /\ pc' = PcBucle(1, Limitar(nuevos))
                /\ movie_info' = None
                /\ good_movies' = <<>>
                /\ j' = 1
                /\ envio' = "none"
                /\ inicio' = disk.estado
                /\ buscadas' = <<>>
                /\ UNCHANGED previa

\* line 455: movie_info = search_filmaffinity(clean_title)
Buscar ==
    /\ pc = "buscar"
    /\ \E r \in ResultadosBusqueda : movie_info' = r
    /\ buscadas' = Append(buscadas, normalizar_titulo(titulos_a_procesar[i].clean_title))
    /\ pc' = "agregar"
    /\ UNCHANGED <<disk, listado, hoy, telegram, historial, titles, titulos_a_procesar,
                   i, good_movies, saltadas, j, envio, inicio, notificadas, guardadas,
                   previa>>

\* lines 457-475: the record of the outcome, in memory
Agregar ==
    /\ pc = "agregar"
    /\ LET title_info == titulos_a_procesar[i]
           clean_title == title_info.clean_title
       IN  IF movie_info # None /\ movie_info.rating # 0
           THEN LET rating == movie_info.rating
                    notificado == SuperaUmbral(rating)
                IN  /\ historial' = agregar_al_historial(historial, clean_title, rating, notificado)
                    /\ good_movies' =
                          IF notificado
                          THEN Append(good_movies, [original |-> title_info.original_title,
                                                    info |-> movie_info])
                          ELSE good_movies
           ELSE /\ historial' = agregar_al_historial(historial, clean_title, 0, FALSE)
                /\ good_movies' = good_movies
    /\ pc' = "guardar"
    /\ UNCHANGED <<disk, listado, hoy, telegram, titles, titulos_a_procesar, i,
                   movie_info, saltadas, j, envio, inicio, buscadas, notificadas,
                   guardadas, previa>>

\* the for loop moves to the next title, or ends
SiguienteTitulo ==
    /\ i' = i + 1
    /\ pc' = PcBucle(i + 1, titulos_a_procesar)
    /\ movie_info' = None
    /\ UNCHANGED <<listado, hoy, telegram, historial, titles, titulos_a_procesar,
                   good_movies, saltadas, j, envio, inicio, buscadas, notificadas, previa>>

\* guardar_historial, line 193: open(HISTORIAL_FILE, 'w') truncates the file
GuardarAbrir ==
    /\ pc = "guardar"
    /\ disk' = DiscoMalformado
    /\ pc' = "escribir"
    /\ UNCHANGED <<listado, hoy, telegram, historial, titles, titulos_a_procesar, i,
                   movie_info, good_movies, saltadas, j, envio, inicio, buscadas,
                   notificadas, guardadas, previa>>

\* guardar_historial, lines 193 and 196-198: open() raises IOError; False is
\* returned and main goes on
GuardarAbrirFalla ==
    /\ pc = "guardar"
    /\ SiguienteTitulo
    /\ UNCHANGED <<disk, guardadas>>

\* guardar_historial, lines 194-195: json.dump writes the whole mapping, the
\* file is closed and True is returned
GuardarEscribir ==
    /\ pc = "escribir"
    /\ disk' = DiscoCon(historial)
    /\ guardadas' = guardadas \cup DOMAIN historial
    /\ SiguienteTitulo

\* guardar_historial, lines 194 and 196-198: a write raises IOError (disk
\* full); the file stays partially written and False is returned
GuardarEscribirFalla ==
    /\ pc = "escribir"
    /\ SiguienteTitulo
    /\ UNCHANGED <<disk, guardadas>>

ClaveDeOriginal(o) ==
    normalizar_titulo((CHOOSE c \in Catalogo \cup CatalogoConSignos :
                            c.original_title = o).clean_title)

\* a variant without the try/except: a failed request raises
send_telegram_message_sin_except(falla) == IF falla THEN "raise" ELSE "True"

\* send_telegram_message (lines 74-89): True, or False when the request
\* fails (RequestException is caught and printed)
send_telegram_message(falla) == IF falla THEN "False" ELSE "True"

\* lines 489-493: one iteration of the notification loop; whether the call
\* returns True or False only changes what is printed.  An exception out of
\* it would end main.
Notificar(falla) ==
    /\ pc = "notificar"
    /\ telegram
    /\ j <= Len(good_movies)
    /\ notificadas' = notificadas \cup {ClaveDeOriginal(good_movies[j].original)}
    /\ LET enviado == send_telegram_message(falla)
       IN  IF enviado = "raise"
           THEN /\ previa' = "excepcion"
                /\ ProcesoParado
           ELSE /\ j' = j + 1
                /\ envio' = IF enviado = "True" THEN "ok" ELSE "fallo"
                /\ UNCHANGED <<pc, telegram, historial, titles, titulos_a_procesar,
                               i, movie_info, good_movies, saltadas, inicio,
                               buscadas, previa>>
    /\ UNCHANGED <<disk, listado, hoy, guardadas>>

\* lines 494-499: nothing (more) to send; "Script finalizado"
Finalizar ==
    /\ pc = "notificar"
    /\ ~telegram \/ j > Len(good_movies)
    /\ previa' = Resumen
    /\ ProcesoParado
    /\ UNCHANGED <<disk, listado, hoy, notificadas, guardadas>>

\* the process is terminated at an arbitrary point
Terminar ==
    /\ pc # "idle"
    /\ previa' = "none"
    /\ ProcesoParado
    /\ UNCHANGED <<disk, listado, hoy, notificadas, guardadas>>

\* the site lists other entries; only the start of a run reads the page
CambiaListado(lista) ==
    /\ pc = "idle"
    /\ lista # listado
    /\ listado' = lista
    /\ previa' = "none"
    /\ UNCHANGED <<disk, hoy, notificadas, guardadas>>
    /\ UNCHANGED proceso

\* midnight passes: datetime.now() reports the next day.  The program reads
\* the clock only in agregar_al_historial (line 206), so a day that passes
\* at any other moment is seen there, as one that passes just before it
PasaDia ==
    /\ pc = "agregar"
    /\ hoy < MaxDia
    /\ hoy' = hoy + 1
    /\ UNCHANGED <<disk, listado, notificadas, guardadas, previa>>
    /\ UNCHANGED proceso

\* no run of main: no document, no history
InitReposo ==
    /\ disk = DiscoAusente
    /\ hoy = 0
    /\ pc = "idle"
    /\ telegram = FALSE
    /\ historial = Vacio
    /\ titles = <<>>
    /\ titulos_a_procesar = <<>>
    /\ i = 1
    /\ movie_info = None
    /\ good_movies = <<>>
    /\ saltadas = 0
    /\ j = 1
    /\ envio = "none"
    /\ inicio = "none"
    /\ buscadas = <<>>
    /\ notificadas = {}
    /\ guardadas = {}
    /\ previa = "none"

\* and nothing listed
InitMainIdle == InitReposo /\ listado = <<>>

\* movie_notifier.py: no run, no file, an empty page
InitNotifierIdle ==
    /\ processed_file = [estado |-> "absent", urls |-> {}]
    /\ cartelera = <<>>
    /\ pcn = "idle"
    /\ processed = {}
    /\ new_torrents = <<>>
    /\ nt = 1
    /\ info = None
    /\ enviadas = [u \in {} |-> 0]

InitNormIdle ==
    /\ raw_title = <<>>
    /\ dedup_key = <<>>
    /\ rekey = <<>>
    /\ fnorm = "idle"

InitSearchIdle ==
    /\ fase = "idle"
    /\ retries = 0
    /\ attempt = 0
    /\ traza = <<>>
    /\ soup = None
    /\ leida = None
    /\ resultado = None

Init ==
    /\ disk = DiscoAusente
    /\ listado \in Listados
    /\ hoy = 0
    /\ pc = "idle"
    /\ telegram = FALSE
    /\ historial = Vacio
    /\ titles = <<>>
    /\ titulos_a_procesar = <<>>
    /\ i = 1
    /\ movie_info = None
    /\ good_movies = <<>>
    /\ saltadas = 0
    /\ j = 1
    /\ envio = "none"
    /\ inicio = "none"
    /\ buscadas = <<>>
    /\ notificadas = {}
    /\ guardadas = {}
    /\ previa = "none"
    /\ InitSearchIdle
    /\ InitNormIdle
    /\ InitNotifierIdle

Next ==
    \/ \E tel \in BOOLEAN, falla \in BOOLEAN :
          Iniciar(tel, falla) /\ UNCHANGED ajenasMain
    \/ Buscar /\ UNCHANGED ajenasMain
    \/ Agregar /\ UNCHANGED ajenasMain
    \/ GuardarAbrir /\ UNCHANGED ajenasMain
    \/ GuardarAbrirFalla /\ UNCHANGED ajenasMain
    \/ GuardarEscribir /\ UNCHANGED ajenasMain
    \/ GuardarEscribirFalla /\ UNCHANGED ajenasMain
    \/ \E falla \in BOOLEAN : Notificar(falla) /\ UNCHANGED ajenasMain
    \/ Finalizar /\ UNCHANGED ajenasMain
    \/ Terminar /\ UNCHANGED ajenasMain
    \/ \E lista \in Listados : CambiaListado(lista) /\ UNCHANGED ajenasMain
    \/ PasaDia /\ UNCHANGED ajenasMain

Spec == Init /\ [][Next]_vars

\* the same program before a page that lists the title made of signs
InitConSignos ==
    /\ InitReposo
    /\ listado \in ListadosConSignos
    /\ InitSearchIdle
    /\ InitNormIdle
    /\ InitNotifierIdle

NextConSignos ==
    \/ \E tel \in BOOLEAN, falla \in BOOLEAN :
          Iniciar(tel, falla) /\ UNCHANGED ajenasMain
    \/ Buscar /\ UNCHANGED ajenasMain
    \/ Agregar /\ UNCHANGED ajenasMain
    \/ GuardarAbrir /\ UNCHANGED ajenasMain
    \/ GuardarAbrirFalla /\ UNCHANGED ajenasMain
    \/ GuardarEscribir /\ UNCHANGED ajenasMain
    \/ GuardarEscribirFalla /\ UNCHANGED ajenasMain
    \/ \E falla \in BOOLEAN : Notificar(falla) /\ UNCHANGED ajenasMain
    \/ Finalizar /\ UNCHANGED ajenasMain
    \/ Terminar /\ UNCHANGED ajenasMain
    \/ \E lista \in ListadosConSignos :
          CambiaListado(lista) /\ UNCHANGED ajenasMain
    \/ PasaDia /\ UNCHANGED ajenasMain

SpecConSignos == InitConSignos /\ [][NextConSignos]_vars

(***************************************************************************)
(* Properties of scraper.main                                              *)
(***************************************************************************)
\* the dedup key of the candidate the for loop is at
ClaveActual == normalizar_titulo(titulos_a_procesar[i].clean_title)

EnSecuencia(x, sq) == \E n \in 1..Len(sq) : sq[n] = x

\* C1: over any sequence of runs, completed or terminated, the Notifier is
\* invoked at most once per dedup key: no call of send_telegram_message is
\* for a key it was already called for.
C1_UnaNotificacionPorClave ==
    [][ (pc = "notificar" /\ j' = j + 1)
            => ClaveDeOriginal(good_movies[j].original) \notin notificadas ]_vars

C3_NoReconsulta ==
    [][ (pc = "buscar" /\ pc' = "agregar")
            => (ClaveActual \in guardadas => EnSecuencia(ClaveActual, buscadas)) ]_vars

\* C4: a run that finds the document malformed aborts: it is not running
\* with an empty mapping, has looked nothing up and has left the document
\* as it was.
C4_AbortaSiMalformado ==
    inicio = "malformed"
        => (pc = "idle" /\ buscadas = <<>> /\ disk = DiscoMalformado)

\* C5: at every instant the document on disk is a complete mapping (or not
\* yet created), never an empty or partially written file.
C5_ReemplazoAtomico == disk.estado # "malformed"

\* the looked-up keys of this run that the document on disk does not hold
SinRegistrar ==
    { n \in 1..Len(buscadas) :
        ~(disk.estado = "valid" /\ buscadas[n] \in DOMAIN disk.peliculas) }

\* C6: when a lookup begins, every key looked up earlier in the run is in
\* the document on disk; at any point at most one looked-up title is
\* missing from it.
C6_UnFlushPorTitulo ==
    /\ pc = "buscar" => SinRegistrar = {}
    /\ Cardinality(SinRegistrar) <= 1

\* C7: the store is append-only: while a run lasts, a record of its mapping
\* is never removed and never changes.
C7_SoloAnadir ==
    [][ pc' # "idle"
            => \A k \in DOMAIN historial :
                  k \in DOMAIN historial' /\ historial'[k] = historial[k] ]_vars

\* the record says notified exactly when a rating was found (nota is 0
\* otherwise) and the rating reaches MIN_RATING
RegistroCoherente(r) == r.notificado = (r.nota # 0 /\ r.nota >= MIN_RATING)

Cargadas == DOMAIN historial \ { buscadas[n] : n \in 1..Len(buscadas) }

\* the listed candidates that were not yet processed when the run began
NoProcesadas ==
    SelectSeq(titles, LAMBDA t : normalizar_titulo(t.clean_title) \notin Cargadas)

\* C13: a run looks up at most MAX_PELICULAS_POR_EJECUCION candidates;
\* candidates already processed do not count for the cap; the candidates
\* looked up are the first not yet processed ones in listing order; and
\* every candidate beyond the cap has no record in the store, in memory or in
\* the document, so a later run looks it up.
C13_TopePorEjecucion ==
    pc # "idle" =>
        /\ Len(buscadas) <= MAX_PELICULAS_POR_EJECUCION
        /\ titulos_a_procesar = Limitar(NoProcesadas)
        /\ \A n \in 1..Len(buscadas) :
              buscadas[n] = normalizar_titulo(NoProcesadas[n].clean_title)
        /\ \A n \in (MAX_PELICULAS_POR_EJECUCION + 1)..Len(NoProcesadas) :
              LET clave == normalizar_titulo(NoProcesadas[n].clean_title)
              IN  /\ clave \notin DOMAIN historial
                  /\ clave \notin DOMAIN disk.peliculas

\* the document holds the flagged record of the title good_movies[n]
Persistida(n) ==
    LET clave == ClaveDeOriginal(good_movies[n].original)
    IN  /\ disk.estado = "valid"
        /\ clave \in DOMAIN disk.peliculas
        /\ disk.peliculas[clave].notificado

\* C14: candidates are processed one at a time, lookup, record, notify: with
\* the Notifier configured, a lookup begins only when every flagged title
\* before it has been handed to the Notifier, and the Notifier is called for
\* a title only when the document holds its flagged record.
C14_UnaPorUna ==
    [][ /\ (pc = "buscar" /\ pc' = "agregar" /\ telegram) => j > Len(good_movies)
        /\ (pc = "notificar" /\ j' = j + 1) => Persistida(j) ]_vars

\* C15: the persisted history does not depend on the Notifier: while the
\* run is at its notifications (sent, failed, or not attempted for lack of
\* credentials) the document is not written and no record of the mapping
\* changes; a send that fails is followed by the next one, the run is never
\* ended by an exception of the Notifier, and a title with a record is not
\* looked up whatever became of its notification.
C15_AjenoAlNotificador ==
    [][ /\ pc = "notificar" => disk' = disk
        /\ (pc = "notificar" /\ pc' # "idle") =>
              /\ historial' = historial
              /\ pc' = "notificar"
              /\ j' \in {j, j + 1}
        /\ previa' # "excepcion"
        /\ (pc = "buscar" /\ pc' = "agregar") => ClaveActual \notin Cargadas ]_vars

\* the only notification of a run has failed, the run is about to finish and
\* the document holds the flagged record
C15_Witness ==
    /\ pc = "notificar"
    /\ envio = "fallo"
    /\ Len(good_movies) = 1
    /\ j = 2
    /\ Persistida(1)

\* what counts as alphanumeric in a title: the letters a-z in either case,
\* bare or with an accent of the table, and the digits
EsAlfanumerico(c) ==
    Reemplazo(Lower(c)) \in Minusculas \cup Digitos

\* C19: a listed title has an empty dedup key only if none of its characters
\* is alphanumeric, and a candidate with an empty key is neither looked up
\* nor recorded: no lookup is for the empty key and the store, in memory and
\* in the document, has no record under it.
C19_SinClaveVacia ==
    /\ \A n \in 1..Len(titles) :
          normalizar_titulo(titles[n].clean_title) = <<>>
              => \A m \in 1..Len(titles[n].clean_title) :
                    ~EsAlfanumerico(titles[n].clean_title[m])
    /\ ~EnSecuencia(<<>>, buscadas)
    /\ <<>> \notin DOMAIN historial
    /\ <<>> \notin DOMAIN disk.peliculas

(***************************************************************************)
(* search_filmaffinity and get_filmaffinity_details (scraper.py 218-340)   *)
(*                                                                         *)
(* traza lists what one call does, in order: [ev |-> "sleep"] with the     *)
(* reason and the seconds, and [ev |-> "get"] with the page requested and  *)
(* the HTTP status received (0: the request raised, no response).          *)
(***************************************************************************)
Sleep(que, segundos) == [ev |-> "sleep", que |-> que, val |-> segundos]
Get(que, status) == [ev |-> "get", que |-> que, val |-> status]

\* wait_time = (attempt + 1) * 30 after a 429, (attempt + 1) * 15 after a 403
UNIDAD_429 == 30
UNIDAD_403 == 15

\* a variant that forgets that attempt counts from 0
wait_time_429_desde_cero(a) == a * UNIDAD_429

wait_time_429(a) == (a + 1) * UNIDAD_429
wait_time_403(a) == (a + 1) * UNIDAD_403

\* random.uniform(3, 6) if attempt == 0 else random.uniform(10, 20): the ends
\* of the interval stand for the values drawn
Delay(a) == IF a = 0 THEN {3, 6} ELSE {10, 20}
\* random.uniform(2, 4) before the request of the detail page
DelayDetalle == {2, 4}

\* a variant with one iteration too many
EnRangoMasUno(a, n) == a <= n

\* for attempt in range(retries): the loop body runs for attempt a
EnRango(a, n) == a < n

\* a variant that gives up one attempt early
HayReintentoCorto(a, n) == a < n - 2

\* attempt < retries - 1: another attempt follows this one
HayReintento(a, n) == a < n - 1

\* except Exception (lines 286-290): continue, or print and leave the try;
\* either way the for loop goes on
TrasExcepcion(a, n) == "bucle"

\* a variant that returns the info whether or not it has a rating
extract_movie_info_sin_filtro(nota) == [rating |-> nota]

\* extract_movie_info (lines 343-382): the info, or None when the page has no
\* rating; nota is what extract_rating finds on the page (0: nothing, or 0.0)
extract_movie_info(nota) == IF nota # 0 THEN [rating |-> nota] ELSE None

\* statuses of a response other than 200 for which raise_for_status raises
\* (0 stands for a request that raised: timeout, connection error)
Fallos == {0, 500}

\* get_filmaffinity_details (lines 295-317): what it appends to traza, what
\* it returns and, when the detail page was parsed, what extract_rating found
\* on it.  d: the delay drawn; r1, r2: status of the request and of the
\* request repeated after a 429; nota: the rating on the detail page
get_filmaffinity_details(d, r1, r2, nota) ==
    LET e0 == <<Sleep("detalle", d), Get("detail", r1)>>
        e1 == e0 \o <<Sleep("detalle429", 30), Get("detail", r2)>>
        salida(t, r) ==
            IF r = 200
            THEN [traza |-> t, resultado |-> extract_movie_info(nota),
                  leida |-> [rating |-> nota]]
            ELSE [traza |-> t, resultado |-> None, leida |-> None]
    IN  IF r1 = 0 THEN salida(e0, 0)
        ELSE IF r1 = 429 THEN salida(e1, r2)
        ELSE salida(e0, r1)

\* the pages a 200 response can carry.  detalle: the search was redirected
\* to the page of one film (search_filmaffinity does not look at this;
\* get_filmaffinity_info of movie_notifier.py reads it off response.url);
\* card: the first result card (".se-it, .movie-card, [data-movie-id]") is
\* absent, has no film link or has one; rating: what extract_rating finds on
\* the page; link: the page has an a[href*='/es/film']
Paginas ==
    [detalle : BOOLEAN, card : {"no", "sin_enlace", "enlace"},
     rating : {0} \cup Notas, link : BOOLEAN]

\* a variant that sends the search request without the courtesy delay
PeticionSinEspera(d, status) == Append(traza, Get("search", status))

\* lines 222-228 of one iteration: the courtesy delay and the search request
Peticion(d, status) == traza \o <<Sleep("cortesia", d), Get("search", status)>>

\* lines 231-239: the response is a 429
Intento429(d) ==
    /\ fase = "bucle"
    /\ EnRango(attempt, retries)
    /\ IF HayReintento(attempt, retries)
       THEN /\ traza' = Append(Peticion(d, 429), Sleep("backoff429", wait_time_429(attempt)))
            /\ attempt' = attempt + 1
            /\ UNCHANGED <<fase, resultado>>
       ELSE /\ traza' = Peticion(d, 429)
            /\ resultado' = None
            /\ fase' = "fin"
            /\ UNCHANGED attempt
    /\ UNCHANGED <<retries, soup, leida>>

\* lines 242-250: the response is a 403
Intento403(d) ==
    /\ fase = "bucle"
    /\ EnRango(attempt, retries)
    /\ IF HayReintento(attempt, retries)
       THEN /\ traza' = Append(Peticion(d, 403), Sleep("backoff403", wait_time_403(attempt)))
            /\ attempt' = attempt + 1
            /\ UNCHANGED <<fase, resultado>>
       ELSE /\ traza' = Peticion(d, 403)
            /\ resultado' = None
            /\ fase' = "fin"
            /\ UNCHANGED attempt
    /\ UNCHANGED <<retries, soup, leida>>

\* lines 228, 252 and 286-290: the request raises, or raise_for_status does
IntentoError(d, status) ==
    /\ fase = "bucle"
    /\ EnRango(attempt, retries)
    /\ traza' = Peticion(d, status)
    /\ attempt' = attempt + 1
    /\ fase' = TrasExcepcion(attempt, retries)
    /\ UNCHANGED <<retries, soup, leida, resultado>>

\* lines 255-284, the order in which a 200 response is resolved: the link of
\* the first result card is followed; else a rating on the page itself is
\* used; else the first film link of the page is followed; else nothing
Resolucion(pagina) ==
    IF pagina.card = "enlace" THEN "detalle_card"
    ELSE IF pagina.rating # 0 THEN "pagina"
    ELSE IF pagina.link THEN "detalle_link"
    ELSE "nada"

\* what the requests of a detail page can meet: r2 matters only after a 429
\* and nota only when the last response is a 200
RespuestasDetalle ==
    { r \in [r1 : Fallos \cup {429, 200}, r2 : Fallos \cup {429, 200},
             nota : {0} \cup Notas] :
        /\ r.r1 # 429 => r.r2 = 0
        /\ (r.r1 # 200 /\ r.r2 # 200) => r.nota = 0 }

\* lines 228 and 252-253: the response is a 200 and is parsed
IntentoOk(d, pagina) ==
    /\ fase = "bucle"
    /\ EnRango(attempt, retries)
    /\ traza' = Peticion(d, 200)
    /\ soup' = pagina
    /\ fase' = "resolver"
    /\ UNCHANGED <<retries, attempt, leida, resultado>>

\* lines 259-267 and 275-281: the result is on a detail page; whatever
\* get_filmaffinity_details returns is returned
ResolverDetalle(dd, r) ==
    /\ fase = "resolver"
    /\ Resolucion(soup) \in {"detalle_card", "detalle_link"}
    /\ LET detalle == get_filmaffinity_details(dd, r.r1, r.r2, r.nota)
       IN  /\ traza' = traza \o detalle.traza
           /\ resultado' = detalle.resultado
           /\ leida' = detalle.leida
    /\ soup' = None
    /\ fase' = "fin"
    /\ UNCHANGED <<retries, attempt>>

\* lines 269-272 and 283-284: the response is resolved on the search page
\* itself, or not at all
ResolverPagina ==
    /\ fase = "resolver"
    /\ Resolucion(soup) \in {"pagina", "nada"}
    /\ resultado' = IF Resolucion(soup) = "pagina"
                    THEN extract_movie_info(soup.rating)
                    ELSE None
    /\ leida' = [rating |-> soup.rating]
    /\ soup' = None
    /\ fase' = "fin"
    /\ UNCHANGED <<retries, attempt, traza>>

\* line 292: the loop is over (or never ran): return None
FinBucle ==
    /\ fase = "bucle"
    /\ ~EnRango(attempt, retries)
    /\ resultado' = None
    /\ fase' = "fin"
    /\ UNCHANGED <<retries, attempt, traza, soup, leida>>

\* main and its environment, at rest
mainVars == <<disk, listado, hoy, notificadas, guardadas, previa, proceso>>

\* what a call of search_filmaffinity leaves alone
ajenasSearch == <<mainVars, normVars, notifierVars>>

\* a call search_filmaffinity(title, retries)
InitSearch ==
    /\ InitMainIdle
    /\ fase = "bucle"
    /\ retries \in 0..MaxRetries
    /\ attempt = 0
    /\ traza = <<>>
    /\ soup = None
    /\ leida = None
    /\ resultado = None
    /\ InitNormIdle
    /\ InitNotifierIdle

NextSearch ==
    \/ \E d \in Delay(attempt) : Intento429(d) /\ UNCHANGED ajenasSearch
    \/ \E d \in Delay(attempt) : Intento403(d) /\ UNCHANGED ajenasSearch
    \/ \E d \in Delay(attempt), st \in Fallos :
          IntentoError(d, st) /\ UNCHANGED ajenasSearch
    \/ \E d \in Delay(attempt), pagina \in Paginas :
          IntentoOk(d, pagina) /\ UNCHANGED ajenasSearch
    \/ \E dd \in DelayDetalle, r \in RespuestasDetalle :
          ResolverDetalle(dd, r) /\ UNCHANGED ajenasSearch
    \/ ResolverPagina /\ UNCHANGED ajenasSearch
    \/ FinBucle /\ UNCHANGED ajenasSearch

SpecSearch == InitSearch /\ [][NextSearch]_vars

\* the call is scheduled until it returns
SpecSearchFair == SpecSearch /\ WF_vars(NextSearch)

(***************************************************************************)
(* One lookup of main: the call of line 455 and the record of its outcome  *)
(***************************************************************************)
\* def search_filmaffinity(title, retries=3): the budget main calls it with
RETRIES_POR_DEFECTO == 3

\* line 455, the call: search_filmaffinity(clean_title) begins
LlamarBusqueda ==
    /\ pc = "buscar"
    /\ fase = "idle"
    /\ fase' = "bucle"
    /\ retries' = RETRIES_POR_DEFECTO
    /\ attempt' = 0
    /\ traza' = <<>>
    /\ soup' = None
    /\ leida' = None
    /\ resultado' = None
    /\ UNCHANGED <<mainVars, normVars, notifierVars>>

\* line 455, the assignment: movie_info is what the call returned (the call
\* that returned stays in sight)
DevolverBusqueda ==
    /\ pc = "buscar"
    /\ fase = "fin"
    /\ movie_info' = resultado
    /\ buscadas' = Append(buscadas, normalizar_titulo(titulos_a_procesar[i].clean_title))
    /\ pc' = "agregar"
    /\ UNCHANGED <<disk, listado, hoy, telegram, historial, titles, titulos_a_procesar,
                   i, good_movies, saltadas, j, envio, inicio, notificadas, guardadas,
                   previa>>
    /\ UNCHANGED ajenasMain

\* a page that lists one title, and no history
InitLookup ==
    /\ InitReposo
    /\ listado \in { l \in Listados : Len(l) = 1 }
    /\ InitSearchIdle
    /\ InitNormIdle
    /\ InitNotifierIdle

NextLookup ==
    \/ \E tel \in BOOLEAN, falla \in BOOLEAN :
          Iniciar(tel, falla) /\ UNCHANGED ajenasMain
    \/ LlamarBusqueda
    \/ NextSearch
    \/ DevolverBusqueda
    \/ Agregar /\ UNCHANGED ajenasMain

SpecLookup == InitLookup /\ [][NextLookup]_vars

(***************************************************************************)
(* normalizar_titulo as a function: a title, its key, the key of its key   *)
(***************************************************************************)
\* the characters of the titles: a letter in both cases, bare, with an
\* accent of the table reemplazos and with one that is not in it; a digit, a
\* space and two punctuation marks
Alfabeto == {"a", "A", "á", "Á", "â", "Â", "1", " ", "-", ":"}

Titulos == UNION { [1..n -> Alfabeto] : n \in 0..MaxLen }

\* what a use of normalizar_titulo leaves alone
ajenasNorm == <<mainVars, searchVars, notifierVars>>

InitNorm ==
    /\ InitMainIdle
    /\ InitSearchIdle
    /\ InitNotifierIdle
    /\ raw_title \in Titulos
    /\ dedup_key = <<>>
    /\ rekey = <<>>
    /\ fnorm = "titulo"

\* clave = normalizar_titulo(titulo_limpio) (lines 203 and 214)
Normalizar ==
    /\ fnorm = "titulo"
    /\ dedup_key' = normalizar_titulo(raw_title)
    /\ fnorm' = "clave"
    /\ UNCHANGED <<raw_title, rekey>>

\* the key is given to normalizar_titulo as a title
Renormalizar ==
    /\ fnorm = "clave"
    /\ rekey' = normalizar_titulo(dedup_key)
    /\ fnorm' = "reclave"
    /\ UNCHANGED <<raw_title, dedup_key>>

NextNorm ==
    \/ Normalizar /\ UNCHANGED ajenasNorm
    \/ Renormalizar /\ UNCHANGED ajenasNorm

SpecNorm == InitNorm /\ [][NextNorm]_vars

(***************************************************************************)
(* Properties of normalizar_titulo                                         *)
(***************************************************************************)
\* the title with the character at position n replaced by c
Sustituir(t, n, c) == [t EXCEPT ![n] = c]

\* the title with c inserted after position n
Insertar(t, n, c) == SubSeq(t, 1, n) \o <<c>> \o SubSeq(t, n + 1, Len(t))

\* the letter of the alphabet without its case
EnMinuscula(c) ==
    CASE c = "A" -> "a" [] c = "Á" -> "á" [] c = "Â" -> "â" [] OTHER -> c

\* the letter of the alphabet without its case and its accent
SinAcento(c) == IF EnMinuscula(c) \in {"a", "á", "â"} THEN "a" ELSE c

\* the accented letters of the table reemplazos (line 168)
AcentosDeLaTabla == {"á", "é", "í", "ó", "ú", "ñ", "à", "è", "ì", "ò", "ù", "ü"}

\* a letter without accent or with an accent of the table, in either case
Plegable(c) == EnMinuscula(c) \in Minusculas \cup AcentosDeLaTabla

\* the title that differs from raw_title in having c at position n has the
\* key of raw_title (titles that differ in several characters are linked by
\* a chain of titles that differ in one)
MismaClave(n, c) == normalizar_titulo(Sustituir(raw_title, n, c)) = dedup_key

\* C16: normalizar_titulo is case-insensitive and diacritic-insensitive: two
\* titles that differ only in the case or in the accents of their letters
\* have the same key.
C16_CajaYAcentosOriginal ==
    fnorm \in {"clave", "reclave"} =>
        \A n \in 1..Len(raw_title), c \in Alfabeto :
            SinAcento(c) = SinAcento(raw_title[n]) => MismaClave(n, c)

\* C16 (amended): normalizar_titulo is case-insensitive, and insensitive to
\* the accents of its table reemplazos: two titles that differ only in the
\* case of their letters, or in accents of the table on them, have the same
\* key.
C16_CajaYAcentos ==
    fnorm \in {"clave", "reclave"} =>
        \A n \in 1..Len(raw_title), c \in Alfabeto :
            (\/ EnMinuscula(c) = EnMinuscula(raw_title[n])
             \/ /\ Plegable(c)
                /\ Plegable(raw_title[n])
                /\ SinAcento(c) = SinAcento(raw_title[n]))
                => MismaClave(n, c)

\* a title with a capital letter with an acute accent, and its key
C16_Witness ==
    /\ fnorm = "clave"
    /\ raw_title = <<"Á", "1", "a">>
    /\ dedup_key = <<"a", "1", "a">>

Separadores == {" ", "-", ":"}
Puntuacion == {"-", ":"}

\* the title without its punctuation marks
SinPuntuacion(t) == SelectSeq(t, LAMBDA c : c \notin Puntuacion)

\* C17: every run of non-alphanumeric characters becomes one space: a title
\* keeps its key when one separator (space, hyphen, colon) is replaced by
\* another, and when a separator is added next to a separator.
C17_SeparadoresOriginal ==
    fnorm \in {"clave", "reclave"} =>
        /\ \A n \in 1..Len(raw_title), c \in Separadores :
              raw_title[n] \in Separadores => MismaClave(n, c)
        /\ \A n \in 1..Len(raw_title), c \in Separadores :
              raw_title[n] \in Separadores =>
                  normalizar_titulo(Insertar(raw_title, n, c)) = dedup_key

\* C17 (amended): normalizar_titulo deletes the punctuation marks and makes
\* one space of every run of whitespace: a title has the key of the title
\* without its punctuation marks, keeps its key when a space is added next
\* to a space, and its key has only letters a-z, digits and single spaces
\* between them.
C17_Separadores ==
    fnorm \in {"clave", "reclave"} =>
        /\ dedup_key = normalizar_titulo(SinPuntuacion(raw_title))
        /\ \A n \in 1..Len(raw_title) :
              raw_title[n] = " " =>
                  normalizar_titulo(Insertar(raw_title, n, " ")) = dedup_key
        /\ \A n \in 1..Len(dedup_key) :
              /\ dedup_key[n] \in Minusculas \cup Digitos \cup {" "}
              /\ dedup_key[n] = " " =>
                    /\ 1 < n /\ n < Len(dedup_key)
                    /\ dedup_key[n + 1] # " "

\* two words joined by a hyphen: the key joins them
C17_Witness ==
    /\ fnorm = "clave"
    /\ raw_title = <<"a", "-", "1">>
    /\ dedup_key = <<"a", "1">>

\* C18: normalizar_titulo is idempotent: the key of a key is the key.
C18_Idempotente == fnorm = "reclave" => rekey = dedup_key

\* a title that loses a punctuation mark, a space and an accent: its key
\* normalised again
C18_Witness ==
    /\ fnorm = "reclave"
    /\ raw_title = <<"-", " ", "Á">>
    /\ dedup_key = <<"a">>
    /\ rekey = <<"a">>

(***************************************************************************)
(* Properties of search_filmaffinity                                       *)
(***************************************************************************)
EsBusqueda(e) == e.ev = "get" /\ e.que = "search"

\* search requests among the first p events of the call
BusquedasHasta(p) == Cardinality({ q \in 1..p : EsBusqueda(traza[q]) })

NumBusquedas == BusquedasHasta(Len(traza))

\* every search response so far was a 429
Todas429 == \A q \in 1..Len(traza) : EsBusqueda(traza[q]) => traza[q].val = 429

\* no search request so far was answered with a 200
NingunaOk == \A q \in 1..Len(traza) : EsBusqueda(traza[q]) => traza[q].val # 200

\* C8: when every search response is a 429, search_filmaffinity(title,
\* retries=N) issues exactly N search requests, returns None and does not
\* raise.
C8_Agota429 ==
    Todas429 =>
        /\ fase # "excepcion"
        /\ NumBusquedas <= retries
        /\ fase = "fin" => (NumBusquedas = retries /\ resultado = None)

\* three attempts, all answered 429, and the call has returned
C8_Witness ==
    /\ fase = "fin"
    /\ retries = 3
    /\ NumBusquedas = 3
    /\ Todas429

\* C9: whatever the transport outcomes, the call ends, after at most N search
\* requests, with a rating result or None and without raising; when no
\* attempt succeeded it returns None.
C9_Acotada ==
    /\ [](/\ NumBusquedas <= retries
          /\ fase # "excepcion"
          /\ fase = "fin" =>
                /\ resultado \in ResultadosBusqueda
                /\ NingunaOk => resultado = None)
    /\ <>(fase = "fin")

\* a call whose three attempts failed in three different ways, returned
C9_Witness ==
    /\ fase = "fin"
    /\ retries = 3
    /\ NumBusquedas = 3
    /\ \E p, q, r \in 1..Len(traza) :
          /\ traza[p] = Get("search", 429)
          /\ traza[q] = Get("search", 403)
          /\ EsBusqueda(traza[r]) /\ traza[r].val \in Fallos

EsBackoff(e, que) == e.ev = "sleep" /\ e.que = que

\* the backoff at position p of kind que follows attempt number
\* BusquedasHasta(p) (counted from 1), lasts that many units, leaves an
\* attempt in the budget and, once the call has returned, was followed by
\* another search request
BackoffCorrecto(p, que, unidad) ==
    EsBackoff(traza[p], que) =>
        /\ traza[p].val = BusquedasHasta(p) * unidad
        /\ BusquedasHasta(p) < retries
        /\ fase = "fin" => \E q \in (p + 1)..Len(traza) : EsBusqueda(traza[q])
        /\ \A q \in (p + 1)..Len(traza) :
              EsBackoff(traza[q], que) => traza[p].val < traza[q].val

\* C10: the wait after a 429 on attempt i is i * 30 s and after a 403 is
\* i * 15 s, so both grow with the attempt and the 403 wait is the shorter
\* one of the same attempt; a backoff wait is always followed by a retry.
C10_Backoff ==
    /\ \A p \in 1..Len(traza) :
          /\ BackoffCorrecto(p, "backoff429", UNIDAD_429)
          /\ BackoffCorrecto(p, "backoff403", UNIDAD_403)
    /\ \A a \in 0..(retries - 1) : wait_time_403(a) < wait_time_429(a)

\* a returned call that waited 15 s after a 403 and then 60 s after a 429
C10_Witness ==
    /\ fase = "fin"
    /\ \E p, q \in 1..Len(traza) :
          /\ p < q
          /\ traza[p] = Sleep("backoff403", 15)
          /\ traza[q] = Sleep("backoff429", 60)

\* the response lists a candidate entry: a result card with a film link, or
\* a film link anywhere on the page
TieneCandidato(pagina) == pagina.card = "enlace" \/ pagina.link

\* the step follows a link of the response to a detail page
SigueEnlace == Len(traza') > Len(traza)

\* the step returns what parsing the response itself gives
EnElSitio == ~SigueEnlace /\ resultado' = extract_movie_info(soup.rating)

\* C11: a 200 search response is resolved in this order: a detail page is
\* parsed in place even when it lists candidate entries; else the link of
\* the first candidate is followed; else a page with an embedded rating is
\* parsed in place; else the result is not-found.
C11_PrioridadResolucion ==
    [][ (fase = "resolver" /\ fase' = "fin") =>
            IF soup.detalle THEN EnElSitio
            ELSE IF TieneCandidato(soup) THEN SigueEnlace
            ELSE IF soup.rating # 0 THEN EnElSitio
            ELSE ~SigueEnlace /\ resultado' = None ]_vars

\* the result was read from a page on which extract_rating found nothing
PaginaSinNota == leida # None /\ leida.rating = 0

\* the last request of the call was answered with a 200
UltimaRespuestaOk == traza # <<>> /\ traza[Len(traza)].val = 200 /\ traza[Len(traza)].ev = "get"

\* C21: search_filmaffinity never returns a result without a rating: a
\* result returned carries the rating read from the page, and when the page
\* parsed has no parseable rating the call returns None; main then records
\* the title with nota 0 and notificado false.
C21_SinNotaNoEncontrada ==
    /\ fase = "fin" =>
          /\ resultado # None =>
                /\ leida # None
                /\ leida.rating # 0
                /\ resultado = [rating |-> leida.rating]
          /\ PaginaSinNota => resultado = None
          /\ (leida # None) = UltimaRespuestaOk
    /\ (pc = "guardar" /\ PaginaSinNota) =>
          /\ movie_info = None
          /\ ClaveActual \in DOMAIN historial
          /\ historial[ClaveActual].nota = 0
          /\ ~historial[ClaveActual].notificado
          /\ good_movies = <<>>

\* the detail page of the first result card was fetched and parsed, it has
\* no rating, and main has recorded the title as not found
C21_Witness ==
    /\ pc = "guardar"
    /\ traza[Len(traza)] = Get("detail", 200)
    /\ PaginaSinNota
    /\ resultado = None
    /\ historial[ClaveActual].nota = 0
    /\ ~historial[ClaveActual].notificado

\* the last request of the call asked for a detail page and failed: it
\* raised, or raise_for_status did
DetalleFallido ==
    /\ traza # <<>>
    /\ traza[Len(traza)].ev = "get"
    /\ traza[Len(traza)].que = "detail"
    /\ traza[Len(traza)].val # 200

\* C22: a failure of the detail request is retried within the attempt
\* budget: the call does not return after a failed detail request while
\* search attempts remain.
C22_DetalleReintentado ==
    (fase = "fin" /\ DetalleFallido) => NumBusquedas = retries

\* the request at position p comes right after a wait of its own: the
\* courtesy delay of its attempt before a search request, the courtesy delay
\* of the detail page before the detail request, and the 30 s after a 429
\* before the detail request is repeated
EsperaPrevia(p) ==
    /\ p > 1
    /\ LET w == traza[p - 1]
       IN  /\ w.ev = "sleep"
           /\ w.val > 0
           /\ IF traza[p].que = "search"
              THEN w.que = "cortesia" /\ w.val \in Delay(BusquedasHasta(p - 1))
              ELSE IF p > 2 /\ traza[p - 2] = Get("detail", 429)
                   THEN w = Sleep("detalle429", 30)
                   ELSE w.que = "detalle" /\ w.val \in DelayDetalle

\* C23: every request to the rating source is preceded by a wait: each
\* search attempt, the first included, sleeps its courtesy delay before its
\* request, and each detail request sleeps a delay of its own before it, so
\* no two requests of one call follow each other without a wait between.
C23_EsperaAntesDePeticion ==
    /\ \A p \in 1..Len(traza) : traza[p].ev = "get" => EsperaPrevia(p)
    /\ \A p \in 1..(Len(traza) - 1) : ~(traza[p].ev = "get" /\ traza[p + 1].ev = "get")

\* a returned call with two search requests, the second one on attempt 1
\* after a courtesy delay, and a detail request repeated after a 429
C23_Witness ==
    /\ fase = "fin"
    /\ NumBusquedas = 2
    /\ \E p \in 1..Len(traza) : traza[p] = Sleep("cortesia", 20)
    /\ Len(traza) > 4
    /\ SubSeq(traza, Len(traza) - 3, Len(traza)) =
          <<Sleep("detalle", 2), Get("detail", 429),
            Sleep("detalle429", 30), Get("detail", 200)>>

(***************************************************************************)
(* movie_notifier.py: main, load_processed and save_processed (31-39 and   *)
(* 145-175)                                                                *)
(***************************************************************************)
\* RATING_THRESHOLD (line 19), in tenths
RATING_THRESHOLD == 70

\* the URLs of the torrents a page can list; scrape_torrents removes no
\* duplicates
Urls == {"/pelicula/1", "/pelicula/2"}

Carteleras == UNION { [1..n -> Urls] : n \in 0..MaxCartelera }

\* what a run of movie_notifier.main leaves alone
ajenasNotifier == <<mainVars, searchVars, normVars>>

InitNotifier ==
    /\ InitMainIdle
    /\ InitSearchIdle
    /\ InitNormIdle
    /\ processed_file = [estado |-> "absent", urls |-> {}]
    /\ cartelera \in Carteleras
    /\ pcn = "idle"
    /\ processed = {}
    /\ new_torrents = <<>>
    /\ nt = 1
    /\ info = None
    /\ enviadas = [u \in Urls |-> 0]

\* the process is gone: its memory is lost
NotifierParado ==
    /\ pcn' = "idle"
    /\ processed' = {}
    /\ new_torrents' = <<>>
    /\ nt' = 1
    /\ info' = None

\* lines 147-148: processed = load_processed(); new_torrents =
\* scrape_torrents() (an empty list when the request fails).  json.load on
\* an empty or partial file raises and nothing catches it: the run ends
IniciarNotifier(falla) ==
    /\ pcn = "idle"
    /\ IF processed_file.estado = "malformed"
       THEN UNCHANGED <<pcn, processed, new_torrents, nt, info>>
       ELSE /\ processed' = processed_file.urls
            /\ new_torrents' = IF falla THEN <<>> ELSE cartelera
            /\ nt' = 1
            /\ info' = None
            /\ pcn' = "bucle"
    /\ UNCHANGED <<processed_file, cartelera, enviadas>>

\* line 151: the URL of the torrent is in processed; the loop goes on
SaltarTorrent ==
    /\ pcn = "bucle"
    /\ nt <= Len(new_torrents)
    /\ new_torrents[nt] \in processed
    /\ nt' = nt + 1
    /\ UNCHANGED <<processed_file, cartelera, pcn, processed, new_torrents, info,
                   enviadas>>

\* lines 151-157: a new torrent is looked up (None also when the lookup
\* raises); line 157 decides whether a message is sent
BuscarTorrent ==
    /\ pcn = "bucle"
    /\ nt <= Len(new_torrents)
    /\ new_torrents[nt] \notin processed
    /\ \E r \in ResultadosBusqueda :
          /\ info' = r
          /\ pcn' = IF r # None /\ r.rating >= RATING_THRESHOLD
                    THEN "enviar"
                    ELSE "guardar"
    /\ UNCHANGED <<processed_file, cartelera, processed, new_torrents, nt, enviadas>>

\* lines 167-168: send_telegram_message(message); a failure is printed
\* inside it (lines 48-52)
EnviarMensaje(falla) ==
    /\ pcn = "enviar"
    /\ enviadas[new_torrents[nt]] < MaxEnvios
    /\ enviadas' = IF falla
                   THEN enviadas
                   ELSE [enviadas EXCEPT ![new_torrents[nt]] = @ + 1]
    /\ pcn' = "guardar"
    /\ UNCHANGED <<processed_file, cartelera, processed, new_torrents, nt, info>>

\* lines 170-172 and 38: processed.add(url); save_processed opens the file
\* with mode "w", which truncates it
GuardarProcessedAbrir ==
    /\ pcn = "guardar"
    /\ processed' = processed \cup {new_torrents[nt]}
    /\ processed_file' = [estado |-> "malformed", urls |-> {}]
    /\ pcn' = "escribir"
    /\ UNCHANGED <<cartelera, new_torrents, nt, info, enviadas>>

\* lines 39 and 173: json.dump writes the list and the file is closed; the
\* loop goes on after time.sleep(1)
GuardarProcessedEscribir ==
    /\ pcn = "escribir"
    /\ processed_file' = [estado |-> "valid", urls |-> processed]
    /\ nt' = nt + 1
    /\ info' = None
    /\ pcn' = "bucle"
    /\ UNCHANGED <<cartelera, processed, new_torrents, enviadas>>

\* line 175: the loop is over; "Finished checking."
FinalizarNotifier ==
    /\ pcn = "bucle"
    /\ nt > Len(new_torrents)
    /\ NotifierParado
    /\ UNCHANGED <<processed_file, cartelera, enviadas>>

\* the process is terminated at an arbitrary point (also by an exception out
\* of save_processed)
TerminarNotifier ==
    /\ pcn # "idle"
    /\ NotifierParado
    /\ UNCHANGED <<processed_file, cartelera, enviadas>>

NextNotifier ==
    \/ \E falla \in BOOLEAN : IniciarNotifier(falla) /\ UNCHANGED ajenasNotifier
    \/ SaltarTorrent /\ UNCHANGED ajenasNotifier
    \/ BuscarTorrent /\ UNCHANGED ajenasNotifier
    \/ \E falla \in BOOLEAN : EnviarMensaje(falla) /\ UNCHANGED ajenasNotifier
    \/ GuardarProcessedAbrir /\ UNCHANGED ajenasNotifier
    \/ GuardarProcessedEscribir /\ UNCHANGED ajenasNotifier
    \/ FinalizarNotifier /\ UNCHANGED ajenasNotifier
    \/ TerminarNotifier /\ UNCHANGED ajenasNotifier

SpecNotifier == InitNotifier /\ [][NextNotifier]_vars

(***************************************************************************)
(* Properties of movie_notifier.main                                       *)
(***************************************************************************)
\* C20: saving the processed set after each torrent prevents re-sending
\* across a crash: whatever the points at which runs are terminated and
\* started again before the same page, no torrent URL is notified twice.
C20_SinReenvio == \A u \in DOMAIN enviadas : enviadas[u] <= 1

====
